---- MODULE Spec2Model ----
(***************************************************************************)
(* The YCSB cluster benchmark drivers: redis_cluster_benchmark.py and      *)
(* rex_store_cluster_benchmark.py.  One state machine covers both          *)
(* run_benchmark sweeps (the variable bench says which driver runs); the   *)
(* pure text function clean_maven_output is modelled on character          *)
(* sequences and has a specification of its own (SpecClean).               *)
(***************************************************************************)
EXTENDS Integers, Sequences, FiniteSets, TLC

VARIABLES
    bench,            \* "redis" | "rex": which driver's run_benchmark runs
    node_count,       \* self.node_count
    runs,             \* self.runs
    pc,               \* position in run_benchmark
    buildStep,        \* number of build commands that have completed
    run,              \* run_benchmark's loop variable run + 1 (0 before the loop)
    mt,               \* index of measurement_type in measurement_types (0 = none yet)
    raised,           \* the exception in flight: "none" or its class name
    failedCells,      \* cells whose run_ycsb_workload raised
    ok_count,         \* launch_redis_cluster's ok_count
    elapsed,          \* time.time() - start_time in launch_redis_cluster
    readyAt,          \* elapsed when ok_count reached node_count, -1 if it has not
    proc,             \* the process Popen returned: "none" | "running" | "exited"
    current_process,  \* rex: self.current_process (0 = None, else the launch number)
    launchResult,     \* what the last launch_*_cluster call returned
    launchEnd,        \* how the last launch ended: "ready" | "timeout" | "exit" | "error"
    live,             \* launch numbers whose cluster processes are still running
    signals,          \* signals delivered by the last stop_rex_store_cluster of the launch
    stdout,           \* what the run phase printed (character sequence)
    files,            \* the output directory: path -> content
    trace,            \* the lifecycle calls made so far, in order
    stopDelay,        \* rex: time the process took to exit after the last SIGINT, -1 if none sent
    line,             \* launch_redis_cluster: what the last readline returned
    content,          \* SpecClean: the argument of clean_maven_output
    cleaned,          \* SpecClean: its result
    recleaned         \* SpecClean: the result of a second call on the result

vars == <<bench, node_count, runs, pc, buildStep, run, mt, raised, failedCells,
          ok_count, elapsed, readyAt, proc, current_process, launchResult,
          launchEnd, live, signals, stdout, files, trace, stopDelay, line,
          content, cleaned, recleaned,
                   recleaned, stopDelay, line>>

(***************************************************************************)
(* Bounds of the model.                                                    *)
(***************************************************************************)
MaxNodeCount == 2
MaxRuns == 2
MaxLen == 7

\* Calls of stop_rex_store_cluster made on one driver object.
MaxStopCalls == 3

(***************************************************************************)
(* Program constants.                                                      *)
(***************************************************************************)
timeout == 120
skip_lines == 5

measurement_types == <<"timeseries", "histogram">>
workload == "workloada"

\* One character of a text: a newline, the marker text "[INFO] BUILD SUCCESS"
\* (kept as one token), or any other character.
NL == "\n"
MARK == "[INFO] BUILD SUCCESS"
OtherChar == "x"
Chars == {NL, MARK, OtherChar}

\* How long one blocking readline can take, in the time unit of timeout.
Delays == {0, 40, 80}

\* What readline can return: "" at end of file, a line without the marker, a
\* line with the marker once, a line with the marker twice.
EOF == ""
Lines == {EOF, "noise", "Cluster state changed: ok",
          "Cluster state changed: ok Cluster state changed: ok"}

NoCell == <<"none", 0>>

(***************************************************************************)
(* clean_maven_output, on character sequences.                             *)
(***************************************************************************)
RECURSIVE split(_)
split(s) ==
    IF \A i \in 1..Len(s) : s[i] # NL
    THEN <<s>>
    ELSE LET i == CHOOSE i \in 1..Len(s) :
                      s[i] = NL /\ \A j \in 1..(i - 1) : s[j] # NL
         IN  <<SubSeq(s, 1, i - 1)>> \o split(SubSeq(s, i + 1, Len(s)))

RECURSIVE join(_)
join(lines) ==
    IF lines = <<>> THEN <<>>
    ELSE IF Len(lines) = 1 THEN lines[1]
    ELSE lines[1] \o <<NL>> \o join(Tail(lines))

\* "[INFO] BUILD SUCCESS" in line
HasMarker(l) == \E j \in 1..Len(l) : l[j] = MARK

\* The for/break loop: the 0-based index of the first marker line, -1 if none.
build_success_index(lines) ==
    LET hits == {i \in 1..Len(lines) : HasMarker(lines[i])}
    IN  IF hits = {} THEN -1
        ELSE (CHOOSE i \in hits : \A j \in hits : i <= j) - 1

\* lines[n:] of Python, n >= 0.
SliceFrom(lines, n) == SubSeq(lines, n + 1, Len(lines))

clean_maven_output_keeps_one_more(text) ==
    LET lines == split(text)
        k == build_success_index(lines)
    IN  IF k = -1 THEN text
        ELSE IF k + skip_lines < Len(lines)
             THEN join(SliceFrom(lines, k + skip_lines - 1))
             ELSE text

\* Without the test build_success_index + skip_lines < len(lines): the
\* slice is taken even when it reaches past the last line.
clean_maven_output_slices_always(text) ==
    LET lines == split(text)
        k == build_success_index(lines)
    IN  IF k = -1 THEN text
        ELSE join(SliceFrom(lines, k + skip_lines))

\* Without the test build_success_index == -1.
clean_maven_output_without_absent_test(text) ==
    LET lines == split(text)
        k == build_success_index(lines)
    IN  IF k + skip_lines < Len(lines)
        THEN join(SliceFrom(lines, k + skip_lines))
        ELSE text

clean_maven_output(text) ==
    LET lines == split(text)
        k == build_success_index(lines)
    IN  IF k = -1 THEN text
        ELSE IF k + skip_lines < Len(lines)
             THEN join(SliceFrom(lines, k + skip_lines))
             ELSE text

\* All character sequences of length at most n.
RECURSIVE Texts(_)
Texts(n) ==
    IF n = 0 THEN {<<>>}
    ELSE LET shorter == Texts(n - 1)
         IN  shorter \cup {Append(t, c) : t \in {u \in shorter : Len(u) = n - 1}, c \in Chars}

(***************************************************************************)
(* The sweep: run_benchmark of both drivers.                               *)
(***************************************************************************)
\* What the run phase of ./bin/ycsb can print: the marker followed by four
\* lines and a final newline, the marker followed by five lines.
Stdouts == {<<MARK, NL, NL, NL, NL, NL>>,
            <<MARK, NL, NL, NL, NL, NL, OtherChar>>}

Terminal == {"done", "failed", "exited"}

\* One lifecycle call: the launch it belongs to, its cell, whether it
\* succeeded, and the text (run: what was printed) or path (write) it is about.
Event(op, id, cell, ok, text) ==
    [op |-> op, id |-> id, cell |-> cell, ok |-> ok, text |-> text]

Count(op) == Cardinality({i \in DOMAIN trace : trace[i].op = op})

\* The number of the launch in progress (0 before the first).
Launches == Count("launch")

\* The cell run_ycsb_workload is called with: (measurement_type, run + 1).
Cell == <<measurement_types[mt], run>>

output_base_dir == IF bench = "redis" THEN "redis_output" ELSE "rex_output"

output_dir == output_base_dir \o "/" \o workload \o "/" \o ToString(node_count)

OutputFile_without_run_number(measurement_type, run_number) ==
    output_dir \o "/" \o measurement_type \o ".txt"

OutputFile(measurement_type, run_number) ==
    output_dir \o "/" \o measurement_type \o "_" \o ToString(run_number) \o ".txt"

\* open(path, "w") followed by f.write(text).
Put(path, text) ==
    [p \in DOMAIN files \cup {path} |-> IF p = path THEN text ELSE files[p]]

BuildSteps == IF bench = "rex" THEN 2 ELSE 1

Init ==
    /\ bench \in {"redis", "rex"}
    /\ node_count \in 1..MaxNodeCount
    /\ runs \in 1..MaxRuns
    /\ pc = "build"
    /\ buildStep = 0
    /\ run = 0
    /\ mt = 0
    /\ raised = "none"
    /\ failedCells = {}
    /\ ok_count = 0
    /\ elapsed = 0
    /\ readyAt = -1
    /\ proc = "none"
    /\ current_process = 0
    /\ launchResult = FALSE
    /\ launchEnd = "none"
    /\ live = {}
    /\ signals = <<>>
    /\ stdout = <<>>
    /\ files = <<>>
    /\ trace = <<>>
    /\ stopDelay = -1
    /\ line = "none"
    /\ content = <<>>
    /\ cleaned = <<>>
    /\ recleaned = <<>>

\* build_redis; build_rex_store then build_ycsb_client.  run_command has
\* check=True: a non-zero exit raises CalledProcessError, which nothing in
\* run_benchmark catches.
build_ignores_failure ==
    /\ pc = "build"
    /\ \E ok \in BOOLEAN :
        /\ trace' = Append(trace, Event("build", buildStep + 1, NoCell, ok, <<>>))
        /\ buildStep' = buildStep + 1
        /\ pc' = IF buildStep + 1 = BuildSteps THEN "for_run" ELSE "build"
    /\ UNCHANGED <<bench, node_count, runs, run, mt, raised, failedCells, ok_count,
                   elapsed, readyAt, proc, current_process, launchResult, launchEnd,
                   live, signals, stdout, files, content, cleaned,
                   recleaned, stopDelay, line>>

build ==
    /\ pc = "build"
    /\ \E ok \in BOOLEAN :
        /\ trace' = Append(trace, Event("build", buildStep + 1, NoCell, ok, <<>>))
        /\ IF ok
           THEN /\ buildStep' = buildStep + 1
                /\ pc' = IF buildStep + 1 = BuildSteps THEN "for_run" ELSE "build"
                /\ raised' = raised
           ELSE /\ buildStep' = buildStep
                /\ pc' = "failed"
                /\ raised' = "CalledProcessError"
    /\ UNCHANGED <<bench, node_count, runs, run, mt, failedCells, ok_count,
                   elapsed, readyAt, proc, current_process, launchResult, launchEnd,
                   live, signals, stdout, files, content, cleaned,
                   recleaned, stopDelay, line>>

\* The redis driver launches for the first run only.
for_run_launches_first_only ==
    /\ pc = "for_run"
    /\ IF run < runs
       THEN /\ run' = run + 1
            /\ mt' = 0
            /\ pc' = IF bench = "redis" /\ run = 0 THEN "launch" ELSE "for_mt"
       ELSE /\ pc' = "done"
            /\ UNCHANGED <<run, mt>>
    /\ UNCHANGED <<bench, node_count, runs, buildStep, raised, failedCells, ok_count,
                   elapsed, readyAt, proc, current_process, launchResult, launchEnd,
                   live, signals, stdout, files, trace, content, cleaned,
                   recleaned, stopDelay, line>>

\* for run in range(self.runs)
for_run ==
    /\ pc = "for_run"
    /\ IF run < runs
       THEN /\ run' = run + 1
            /\ mt' = 0
            /\ pc' = IF bench = "redis" THEN "launch" ELSE "for_mt"
       ELSE /\ pc' = "done"
            /\ UNCHANGED <<run, mt>>
    /\ UNCHANGED <<bench, node_count, runs, buildStep, raised, failedCells, ok_count,
                   elapsed, readyAt, proc, current_process, launchResult, launchEnd,
                   live, signals, stdout, files, trace, content, cleaned,
                   recleaned, stopDelay, line>>

\* The rex driver launches for the first measurement type of a run only.
for_mt_launches_first_only ==
    /\ pc = "for_mt"
    /\ IF mt < Len(measurement_types)
       THEN /\ mt' = mt + 1
            /\ pc' = IF bench = "redis" \/ mt > 0 THEN "load" ELSE "launch"
       ELSE /\ mt' = mt
            /\ pc' = IF bench = "redis" THEN "cleanup" ELSE "for_run"
    /\ UNCHANGED <<bench, node_count, runs, buildStep, run, raised, failedCells,
                   ok_count, elapsed, readyAt, proc, current_process, launchResult,
                   launchEnd, live, signals, stdout, files, trace, content, cleaned,
                   recleaned, stopDelay, line>>

\* for measurement_type in self.measurement_types.  In the redis driver the
\* loop is inside the try block, so leaving it runs the finally clause.
for_mt ==
    /\ pc = "for_mt"
    /\ IF mt < Len(measurement_types)
       THEN /\ mt' = mt + 1
            /\ pc' = IF bench = "redis" THEN "load" ELSE "launch"
       ELSE /\ mt' = mt
            /\ pc' = IF bench = "redis" THEN "cleanup" ELSE "for_run"
    /\ UNCHANGED <<bench, node_count, runs, buildStep, run, raised, failedCells,
                   ok_count, elapsed, readyAt, proc, current_process, launchResult,
                   launchEnd, live, signals, stdout, files, trace, content, cleaned,
                   recleaned, stopDelay, line>>

(***************************************************************************)
(* launch_redis_cluster: Popen, the readiness loop, the return.            *)
(***************************************************************************)
\* "Cluster state changed: ok" in line
ContainsReady(l) ==
    l \in {"Cluster state changed: ok",
           "Cluster state changed: ok Cluster state changed: ok"}

MarkerIncrement_per_occurrence(l) ==
    IF l = "Cluster state changed: ok Cluster state changed: ok" THEN 2
    ELSE IF ContainsReady(l) THEN 1 ELSE 0

\* if "Cluster state changed: ok" in line: ok_count += 1
MarkerIncrement(l) == IF ContainsReady(l) THEN 1 ELSE 0

\* if not line and process.poll() is not None: break -- never taken.
BreaksOnExit_never(l) == FALSE

\* if not line and process.poll() is not None: break
BreaksOnExit(l) == l = EOF /\ proc = "exited"

\* The while condition without the test of ok_count.
KeepWaiting_ignores_count == elapsed < timeout

\* The while condition of the readiness loop.
KeepWaiting == ok_count < node_count /\ elapsed < timeout

launch_redis_cluster_Popen ==
    /\ pc = "launch"
    /\ bench = "redis"
    /\ trace' = Append(trace, Event("launch", Launches + 1, NoCell, TRUE, <<>>))
    /\ proc' = "running"
    /\ ok_count' = 0
    /\ elapsed' = 0
    /\ readyAt' = -1
    /\ launchEnd' = "none"
    /\ pc' = "await"
    /\ UNCHANGED <<bench, node_count, runs, buildStep, run, mt, raised, failedCells,
                   current_process, launchResult, live, signals, stdout, files,
                   content, cleaned,
                   recleaned, stopDelay, line>>

\* The end of the loop is recorded as a "readiness" event: the readiness
\* check of the launch has finished.
\* One evaluation of the while condition and, when it holds, one iteration:
\* a blocking readline that takes d time units and returns l.  A marker
\* line is printed by a cluster node that is up, so the launch's cluster is
\* live from then on.
launch_redis_cluster_loop ==
    /\ pc = "await"
    /\ IF KeepWaiting
       THEN \E d \in Delays, l \in Lines :
              /\ elapsed' = elapsed + d
              /\ line' = l
              /\ IF BreaksOnExit(l)
                 THEN /\ pc' = "await_done"
                      /\ launchEnd' = "exit"
                      /\ trace' = Append(trace, Event("readiness", Launches,
                                                      NoCell, FALSE, <<>>))
                      /\ UNCHANGED <<ok_count, readyAt, live>>
                 ELSE /\ pc' = "await"
                      /\ launchEnd' = launchEnd
                      /\ trace' = trace
                      /\ ok_count' = ok_count + MarkerIncrement(l)
                      /\ readyAt' = IF ok_count' >= node_count /\ readyAt = -1
                                    THEN elapsed' ELSE readyAt
                      /\ live' = IF ContainsReady(l)
                                 THEN live \cup {Launches} ELSE live
       ELSE /\ pc' = "await_done"
            /\ launchEnd' = IF ok_count = node_count THEN "ready" ELSE "timeout"
            /\ trace' = Append(trace, Event("readiness", Launches, NoCell,
                                            ok_count = node_count, <<>>))
            /\ UNCHANGED <<elapsed, ok_count, readyAt, live, line>>
    /\ UNCHANGED <<bench, node_count, runs, buildStep, run, mt, raised, failedCells,
                   proc, current_process, launchResult, signals, stdout, files,
                   content, cleaned, recleaned, stopDelay>>

\* After the loop: the launch script is terminated if it still runs (the
\* cluster nodes it started stay up), and the result is ok_count == node_count.
launch_redis_cluster_return ==
    /\ pc = "await_done"
    /\ proc' = "exited"
    /\ launchResult' = (ok_count = node_count)
    /\ trace' = Append(trace, Event("launch_return", Launches, NoCell,
                                    ok_count = node_count, <<>>))
    /\ line' = "none"
    /\ pc' = "launch_ret"
    /\ UNCHANGED <<bench, node_count, runs, buildStep, run, mt, raised, failedCells,
                   ok_count, elapsed, readyAt, current_process, launchEnd, live,
                   signals, stdout, files, content, cleaned,
                   recleaned, stopDelay>>

(***************************************************************************)
(* launch_rex_store_cluster: Popen in a new process group, one poll.       *)
(***************************************************************************)
\* outcome "raises": os.chdir or Popen raised, caught by except Exception;
\* "exited": the process had exited when polled; "running": poll() is None;
\* "exits_after_poll": poll() is None and the process exits before the
\* method returns.
launch_rex_store_cluster ==
    /\ pc = "launch"
    /\ bench = "rex"
    /\ \E outcome \in {"raises", "exited", "running", "exits_after_poll"} :
        LET polled_none == outcome \in {"running", "exits_after_poll"}
        IN  /\ trace' = trace \o <<Event("launch", Launches + 1, NoCell, TRUE, <<>>),
                                   Event("launch_return", Launches + 1, NoCell,
                                         polled_none, <<>>)>>
            /\ launchResult' = polled_none
            /\ launchEnd' = CASE outcome = "raises" -> "error"
                              [] outcome = "exited" -> "exit"
                              [] polled_none -> "ready"
            /\ current_process' = IF outcome = "raises" THEN current_process
                                  ELSE Launches + 1
            /\ proc' = CASE outcome = "raises" -> proc
                         [] outcome = "running" -> "running"
                         [] outcome \in {"exited", "exits_after_poll"} -> "exited"
            /\ live' = IF outcome = "running" THEN live \cup {Launches + 1} ELSE live
    /\ signals' = <<>>
    /\ stopDelay' = -1
    /\ pc' = "launch_ret"
    /\ UNCHANGED <<bench, node_count, runs, buildStep, run, mt, raised, failedCells,
                   ok_count, elapsed, readyAt, stdout, files, content, cleaned,
                   recleaned, line>>

\* The next position of run_benchmark after a launch that returned False.
LaunchFailedPc == IF bench = "redis" THEN "for_run" ELSE "exited"

\* Launch failed, and the workload runs all the same.
after_launch_no_skip ==
    /\ pc = "launch_ret"
    /\ pc' = IF bench = "redis" THEN "for_mt" ELSE "load"
    /\ raised' = raised
    /\ UNCHANGED <<bench, node_count, runs, buildStep, run, mt, failedCells, ok_count,
                   elapsed, readyAt, proc, current_process, launchResult, launchEnd,
                   live, signals, stdout, files, trace, content, cleaned,
                   recleaned, stopDelay, line>>

\* run_benchmark's test of the launch result: redis skips the run with
\* continue, rex calls sys.exit(1) (outside the try block).
after_launch ==
    /\ pc = "launch_ret"
    /\ IF launchResult
       THEN /\ pc' = IF bench = "redis" THEN "for_mt" ELSE "load"
            /\ raised' = raised
       ELSE /\ pc' = LaunchFailedPc
            /\ raised' = IF bench = "redis" THEN raised ELSE "SystemExit"
    /\ UNCHANGED <<bench, node_count, runs, buildStep, run, mt, failedCells, ok_count,
                   elapsed, readyAt, proc, current_process, launchResult, launchEnd,
                   live, signals, stdout, files, trace, content, cleaned,
                   recleaned, stopDelay, line>>

\* The launched process exits on its own.
ProcExit ==
    /\ pc \notin Terminal
    /\ proc = "running"
    /\ proc' = "exited"
    /\ live' = IF bench = "rex" THEN live \ {current_process} ELSE live
    /\ UNCHANGED <<bench, node_count, runs, pc, buildStep, run, mt, raised,
                   failedCells, ok_count, elapsed, readyAt, current_process,
                   launchResult, launchEnd, signals, stdout, files, trace, content,
                   cleaned,
                   recleaned, stopDelay, line>>

(***************************************************************************)
(* run_ycsb_workload: load phase, run phase, artifact write.  It is called *)
(* inside try ... finally, so an exception moves run_benchmark to the      *)
(* cleanup of the finally clause with the exception still in flight.       *)
(***************************************************************************)
\* The load command is run with check=False: its failure is not raised.
run_ycsb_workload_load_unchecked ==
    /\ pc = "load"
    /\ \E ok \in BOOLEAN :
        /\ trace' = Append(trace, Event("load", Launches, Cell, ok, <<>>))
        /\ pc' = "run"
        /\ UNCHANGED <<raised, failedCells>>
    /\ UNCHANGED <<bench, node_count, runs, buildStep, run, mt, ok_count, elapsed,
                   readyAt, proc, current_process, launchResult, launchEnd, live,
                   signals, stdout, files, content, cleaned,
                   recleaned, stopDelay, line>>

\* self.run_command(load_cmd), check=True: a non-zero exit raises
\* CalledProcessError out of run_ycsb_workload.
run_ycsb_workload_load ==
    /\ pc = "load"
    /\ \E ok \in BOOLEAN :
        /\ trace' = Append(trace, Event("load", Launches, Cell, ok, <<>>))
        /\ IF ok
           THEN /\ pc' = "run"
                /\ UNCHANGED <<raised, failedCells>>
           ELSE /\ pc' = "cleanup"
                /\ raised' = "CalledProcessError"
                /\ failedCells' = failedCells \cup {Cell}
    /\ UNCHANGED <<bench, node_count, runs, buildStep, run, mt, ok_count, elapsed,
                   readyAt, proc, current_process, launchResult, launchEnd, live,
                   signals, stdout, files, content, cleaned,
                   recleaned, stopDelay, line>>

run_ycsb_workload_run ==
    /\ pc = "run"
    /\ \E ok \in BOOLEAN, out \in Stdouts :
        /\ trace' = Append(trace, Event("run", Launches, Cell, ok,
                                        IF ok THEN out ELSE <<>>))
        /\ IF ok
           THEN /\ pc' = "write"
                /\ stdout' = out
                /\ UNCHANGED <<raised, failedCells>>
           ELSE /\ pc' = "cleanup"
                /\ stdout' = stdout
                /\ raised' = "CalledProcessError"
                /\ failedCells' = failedCells \cup {Cell}
    /\ UNCHANGED <<bench, node_count, runs, buildStep, run, mt, ok_count, elapsed,
                   readyAt, proc, current_process, launchResult, launchEnd, live,
                   signals, files, content, cleaned,
                   recleaned, stopDelay, line>>

\* with open(output_file, "w") as f: f.write(cleaned_output).  open can fail
\* (the file is left as it was) and write can fail (the file was truncated).
\* After a successful write, time.sleep(2) and the next step of run_benchmark.
run_ycsb_workload_write ==
    /\ pc = "write"
    /\ \E res \in {"ok", "open_fails", "write_fails"} :
        LET path == OutputFile(Cell[1], Cell[2])
            cleaned_output == clean_maven_output(stdout)
        IN  /\ trace' = Append(trace, Event("write", Launches, Cell, res = "ok", path))
            /\ files' = CASE res = "ok" -> Put(path, cleaned_output)
                          [] res = "open_fails" -> files
                          [] res = "write_fails" -> Put(path, <<>>)
            /\ IF res = "ok"
               THEN /\ pc' = IF bench = "redis" THEN "for_mt" ELSE "cleanup"
                    /\ UNCHANGED <<raised, failedCells>>
               ELSE /\ pc' = "cleanup"
                    /\ raised' = "OSError"
                    /\ failedCells' = failedCells \cup {Cell}
    /\ UNCHANGED <<bench, node_count, runs, buildStep, run, mt, ok_count, elapsed,
                   readyAt, proc, current_process, launchResult, launchEnd, live,
                   signals, stdout, content, cleaned,
                   recleaned, stopDelay, line>>

(***************************************************************************)
(* The finally clauses: reset_redis_cluster and stop_rex_store_cluster.    *)
(***************************************************************************)
\* run_command("./redis_cluster_reset.sh") with check=True, then sleep(3).
\* The script stops every cluster node; when it fails, its exception
\* replaces the one in flight.
reset_redis_cluster ==
    /\ pc = "cleanup"
    /\ bench = "redis"
    /\ \E ok \in BOOLEAN :
        /\ trace' = Append(trace, Event("cleanup", Launches, NoCell, ok, <<>>))
        /\ IF ok
           THEN /\ live' = {}
                /\ raised' = raised
                /\ pc' = IF raised = "none" THEN "for_run" ELSE "failed"
           ELSE /\ live' = live
                /\ raised' = "CalledProcessError"
                /\ pc' = "failed"
    /\ UNCHANGED <<bench, node_count, runs, buildStep, run, mt, failedCells, ok_count,
                   elapsed, readyAt, proc, current_process, launchResult, launchEnd,
                   signals, stdout, files, content, cleaned,
                   recleaned, stopDelay, line>>

\* self.current_process.wait(timeout=5)
wait_timeout == 5

\* Time the process may take to exit once SIGINT reached it.
ExitDelays == {3, 8}

\* wait(timeout=5) raises TimeoutExpired even when the process exited in time.
TimeoutExpired_always(t) == TRUE

\* wait(timeout=5) raises TimeoutExpired: the process, which exits t after
\* the SIGINT, has not exited within the timeout.
TimeoutExpired(t) == t > wait_timeout

\* No except clause: the exception leaves the try statement.
ExceptException_missing(exc) == exc

\* except Exception as e: print(...).  What leaves the try statement when
\* exc is raised in the try block.
ExceptException(exc) == "none"

\* The body of stop_rex_store_cluster.  When poll() is None: SIGINT to the
\* process group, wait(timeout=5), SIGKILL on TimeoutExpired, and
\* current_process = None in the finally clause.  gone: the process exited
\* between poll() and killpg; killpg then either signals the not yet reaped
\* process to no effect or raises ProcessLookupError (lookup_fails).
\* Otherwise nothing is sent and current_process is left as it is.
\* Then time.sleep(2).
stop_rex_store_cluster_call ==
    /\ IF current_process # 0 /\ proc = "running"
       THEN /\ \E gone \in BOOLEAN :
                IF gone
                THEN \E lookup_fails \in BOOLEAN :
                        /\ signals' = IF lookup_fails THEN <<>> ELSE <<"SIGINT">>
                        /\ stopDelay' = 0
                        /\ raised' = IF lookup_fails
                                        /\ ExceptException("ProcessLookupError") # "none"
                                     THEN ExceptException("ProcessLookupError")
                                     ELSE raised
                ELSE \E t \in ExitDelays :
                        /\ signals' = IF TimeoutExpired(t)
                                      THEN <<"SIGINT", "SIGKILL">>
                                      ELSE <<"SIGINT">>
                        /\ stopDelay' = t
                        /\ raised' = raised
            /\ proc' = "exited"
            /\ live' = live \ {current_process}
            /\ current_process' = 0
       ELSE /\ signals' = <<>>
            /\ stopDelay' = -1
            /\ UNCHANGED <<proc, live, current_process, raised>>
    /\ trace' = Append(trace, Event("cleanup", Launches, NoCell, raised' = raised, <<>>))

\* run_benchmark's finally clause: self.stop_rex_store_cluster().
stop_rex_store_cluster ==
    /\ pc = "cleanup"
    /\ bench = "rex"
    /\ stop_rex_store_cluster_call
    /\ pc' = IF raised' = "none" THEN "for_mt" ELSE "failed"
    /\ UNCHANGED <<bench, node_count, runs, buildStep, run, mt, failedCells,
                   ok_count, elapsed, readyAt, launchResult, launchEnd, stdout,
                   files, content, cleaned, recleaned, line>>

Next ==
    \/ build
    \/ for_run
    \/ for_mt
    \/ launch_redis_cluster_Popen
    \/ launch_redis_cluster_loop
    \/ launch_redis_cluster_return
    \/ launch_rex_store_cluster
    \/ after_launch
    \/ ProcExit
    \/ run_ycsb_workload_load
    \/ run_ycsb_workload_run
    \/ run_ycsb_workload_write
    \/ reset_redis_cluster
    \/ stop_rex_store_cluster

Spec == Init /\ [][Next]_vars

(***************************************************************************)
(* stop_rex_store_cluster called directly on a rex_store driver: before    *)
(* the launch, after it, and again with no launch in between.              *)
(***************************************************************************)
InitStop ==
    /\ bench = "rex"
    /\ node_count \in 1..MaxNodeCount
    /\ runs \in 1..MaxRuns
    /\ pc = "launch"
    /\ buildStep = BuildSteps
    /\ run = 0
    /\ mt = 0
    /\ raised = "none"
    /\ failedCells = {}
    /\ ok_count = 0
    /\ elapsed = 0
    /\ readyAt = -1
    /\ proc = "none"
    /\ current_process = 0
    /\ launchResult = FALSE
    /\ launchEnd = "none"
    /\ live = {}
    /\ signals = <<>>
    /\ stdout = <<>>
    /\ files = <<>>
    /\ trace = <<>>
    /\ stopDelay = -1
    /\ line = "none"
    /\ content = <<>>
    /\ cleaned = <<>>
    /\ recleaned = <<>>

\* One call of stop_rex_store_cluster from outside the sweep.
StopCall ==
    /\ pc \in {"launch", "launch_ret", "stopped"}
    /\ bench = "rex"
    /\ Count("cleanup") < MaxStopCalls
    /\ stop_rex_store_cluster_call
    /\ pc' = IF pc = "launch" THEN "launch" ELSE "stopped"
    /\ UNCHANGED <<bench, node_count, runs, buildStep, run, mt, failedCells,
                   ok_count, elapsed, readyAt, launchResult, launchEnd, stdout,
                   files, content, cleaned, recleaned, line>>

NextStop ==
    \/ launch_rex_store_cluster
    \/ ProcExit
    \/ StopCall

SpecStop == InitStop /\ [][NextStop]_vars

(***************************************************************************)
(* clean_maven_output applied to every text of at most MaxLen characters.  *)
(***************************************************************************)
InitClean ==
    /\ bench = "redis"
    /\ node_count = 1
    /\ runs = 1
    /\ pc = "clean"
    /\ buildStep = 0
    /\ run = 0
    /\ mt = 0
    /\ raised = "none"
    /\ failedCells = {}
    /\ ok_count = 0
    /\ elapsed = 0
    /\ readyAt = -1
    /\ proc = "none"
    /\ current_process = 0
    /\ launchResult = FALSE
    /\ launchEnd = "none"
    /\ live = {}
    /\ signals = <<>>
    /\ stdout = <<>>
    /\ files = <<>>
    /\ trace = <<>>
    /\ stopDelay = -1
    /\ line = "none"
    /\ content \in Texts(MaxLen)
    /\ cleaned = <<>>
    /\ recleaned = <<>>

CleanCall ==
    /\ pc = "clean"
    /\ cleaned' = clean_maven_output(content)
    /\ pc' = "cleaned"
    /\ UNCHANGED <<bench, node_count, runs, buildStep, run, mt, raised, failedCells,
                   ok_count, elapsed, readyAt, proc, current_process, launchResult,
                   launchEnd, live, signals, stdout, files, trace, content,
                   recleaned, stopDelay, line>>

\* clean_maven_output applied to its own result.
CleanAgain ==
    /\ pc = "cleaned"
    /\ recleaned' = clean_maven_output(cleaned)
    /\ pc' = "recleaned"
    /\ UNCHANGED <<bench, node_count, runs, buildStep, run, mt, raised, failedCells,
                   ok_count, elapsed, readyAt, proc, current_process, launchResult,
                   launchEnd, live, signals, stdout, files, trace, content, cleaned,
                   stopDelay, line>>

NextClean == CleanCall \/ CleanAgain

SpecClean == InitClean /\ [][NextClean]_vars

(***************************************************************************)
(* What the trace says.                                                    *)
(***************************************************************************)
AllCells == {<<measurement_types[m], r>> : m \in 1..Len(measurement_types), r \in 1..runs}

LastLaunchIdx ==
    LET at == {i \in DOMAIN trace : trace[i].op = "launch"}
    IN  IF at = {} THEN 0 ELSE CHOOSE i \in at : \A j \in at : j <= i

\* Cleanup calls made since the last launch call.
CleanupsSinceLaunch ==
    Cardinality({i \in DOMAIN trace : i > LastLaunchIdx /\ trace[i].op = "cleanup"})

LaunchReturned(id, ok) ==
    \E i \in DOMAIN trace :
        trace[i].op = "launch_return" /\ trace[i].id = id /\ trace[i].ok = ok

\* The last lifecycle call was a launch that returned False.
LastLaunchFailed ==
    /\ trace # <<>>
    /\ trace[Len(trace)].op = "launch_return"
    /\ ~trace[Len(trace)].ok

Succeeded(cell, op) ==
    \E i \in DOMAIN trace : trace[i].op = op /\ trace[i].cell = cell /\ trace[i].ok

\* What the run phase of the cell printed.
RunText(cell) ==
    LET i == CHOOSE i \in DOMAIN trace :
                 trace[i].op = "run" /\ trace[i].cell = cell /\ trace[i].ok
    IN  trace[i].text

\* Every workload phase ran under a launch that had returned True.
NoWorkloadForFailedLaunch ==
    \A i \in DOMAIN trace :
        trace[i].op \in {"load", "run", "write"} => LaunchReturned(trace[i].id, TRUE)

\* Two cells of the sweep never share an artifact path.
DistinctPaths ==
    \A c1 \in AllCells, c2 \in AllCells :
        c1 # c2 => OutputFile(c1[1], c1[2]) # OutputFile(c2[1], c2[2])

\* The number of writes the sweep made to the path.
WritesTo(path) ==
    Cardinality({i \in DOMAIN trace : trace[i].op = "write" /\ trace[i].text = path})

(***************************************************************************)
(* Texts read character by character, without split and join.              *)
(***************************************************************************)
NewlinesUpTo(s, p) == Cardinality({i \in 1..p : s[i] = NL})

FirstMarker(s) == CHOOSE i \in 1..Len(s) : s[i] = MARK /\ \A j \in 1..(i - 1) : s[j] # MARK

\* The 0-based number of the first marker line.
MarkerLine(s) == NewlinesUpTo(s, FirstMarker(s))

\* The text has a marker line and at least 5 more lines after the first one.
MarkerWithFiveMore(s) ==
    /\ \E i \in 1..Len(s) : s[i] = MARK
    /\ NewlinesUpTo(s, Len(s)) - MarkerLine(s) >= 5

\* The text from (0-based) line n on: what follows the n-th newline.
TextFromLine(s, n) ==
    LET q == CHOOSE q \in 1..Len(s) : s[q] = NL /\ NewlinesUpTo(s, q) = n
    IN  SubSeq(s, q + 1, Len(s))

(***************************************************************************)
(* The claims.                                                             *)
(***************************************************************************)

\* C1: every launch call is followed by exactly one cleanup call
\* (reset_redis_cluster / stop_rex_store_cluster) before the next launch and
\* before the sweep ends, whatever happened after the launch.
C1_CleanupOncePerLaunch ==
    (Launches > 0 /\ (pc = "launch" \/ pc \in Terminal)) => CleanupsSinceLaunch = 1

\* C2: a failed workload cell does not end the sweep: when a cell's load, run
\* or write failed (and every launch and cleanup succeeded), run_benchmark
\* still ends normally, with every cell attempted.
C2_CellFailureIsolated ==
    ( /\ pc \in Terminal
      /\ failedCells # {}
      /\ \A i \in DOMAIN trace : trace[i].op \in {"launch_return", "cleanup"} => trace[i].ok )
    => ( /\ pc = "done"
         /\ \A c \in AllCells : \E i \in DOMAIN trace : trace[i].op = "load" /\ trace[i].cell = c )

\* C3 as claimed: no workload phase runs for a launch that returned False, and
\* after such a launch the sweep goes on: it does not terminate other than by
\* reaching the end of its loop.
C3_FailedLaunchNeverEndsSweep ==
    /\ NoWorkloadForFailedLaunch
    /\ (LastLaunchFailed /\ pc # "launch_ret") => pc \in {"for_run", "launch", "done"}

\* C3 as amended: no workload phase runs for a launch that returned False; the
\* redis sweep then goes on to the next run (ending normally only after the
\* last run), the rex_store sweep terminates with sys.exit(1).
C3_FailedLaunchSkipsOrExits ==
    /\ NoWorkloadForFailedLaunch
    /\ (LastLaunchFailed /\ pc # "launch_ret") =>
          IF bench = "redis"
          THEN /\ pc \in {"for_run", "launch", "done"}
               /\ pc = "done" => run = runs
               /\ raised = "none"
          ELSE pc = "exited" /\ raised = "SystemExit"

\* C3 witness: the redis sweep is about to launch for run 2 after the launch
\* of run 1 returned False.
C3_Witness ==
    bench = "redis" /\ LastLaunchFailed /\ pc = "launch" /\ run = 2

\* C4: a readiness wait that times out returns False at or after the deadline,
\* and the cleanup is called for that launch before the sweep launches again
\* or ends.
C4_TimeoutStillCleansUp ==
    (bench = "redis" /\ launchEnd = "timeout") =>
        /\ pc = "launch_ret" => (~launchResult /\ elapsed >= timeout)
        /\ (pc = "launch" \/ pc \in Terminal) => CleanupsSinceLaunch >= 1

\* C5: whenever launch is called, no process of an earlier launch is still
\* running.
C5_NoLiveClusterAtLaunch == pc = "launch" => live = {}

\* C6: launch_redis_cluster returns True exactly when ok_count reached
\* node_count at a time strictly before the deadline.
C6_ReadyIffBeforeDeadline ==
    (bench = "redis" /\ pc = "launch_ret") =>
        (launchResult <=> (readyAt # -1 /\ readyAt < timeout))

\* C7: in the readiness wait ok_count starts at 0, never decreases and never
\* exceeds node_count, whatever lines are read.
C7_OkCountMonotoneBounded ==
    [][ /\ (pc = "launch" /\ pc' = "await") => ok_count' = 0
        /\ pc = "await" => (ok_count <= ok_count' /\ ok_count' <= node_count) ]_vars

\* C7 witness: the wait of a two-node cluster has counted up to node_count.
C7_Witness ==
    pc = "await_done" /\ node_count = 2 /\ ok_count = node_count

\* C8: when a build command fails, run_benchmark ends there: no launch has
\* been made and no artifact has been written.
C8_BuildFailureAborts ==
    (\E i \in DOMAIN trace : trace[i].op = "build" /\ ~trace[i].ok) =>
        /\ pc = "failed"
        /\ Launches = 0
        /\ Count("write") = 0
        /\ files = <<>>

\* C8 witness: the second build command of the rex_store driver failed.
C8_Witness ==
    pc = "failed" /\ bench = "rex" /\ buildStep = 1 /\ raised = "CalledProcessError"

\* C9 as claimed: after a sweep every cell whose load and run phases succeeded
\* has exactly one artifact at its path, with non-empty content, and distinct
\* cells have distinct paths.
C9_ArtifactNonEmpty ==
    pc \in Terminal =>
        /\ DistinctPaths
        /\ \A c \in AllCells :
              (Succeeded(c, "load") /\ Succeeded(c, "run")) =>
                  LET path == OutputFile(c[1], c[2])
                  IN  /\ path \in DOMAIN files
                      /\ files[path] # <<>>
                      /\ WritesTo(path) = 1

\* C9 as amended: after a sweep every cell whose load phase, run phase and
\* artifact write succeeded has exactly one artifact at its path, holding the
\* sanitized output of its run phase (which can be empty), and distinct cells
\* have distinct paths.
C9_ArtifactPerWrittenCell ==
    pc \in Terminal =>
        /\ DistinctPaths
        /\ \A c \in AllCells :
              Succeeded(c, "write") =>
                  LET path == OutputFile(c[1], c[2])
                  IN  /\ path \in DOMAIN files
                      /\ files[path] = clean_maven_output(RunText(c))
                      /\ WritesTo(path) = 1

\* C9 witness: a two-run sweep ended with all four cells written, one artifact
\* empty and one not.
C9_Witness ==
    /\ pc = "done"
    /\ runs = 2
    /\ \A c \in AllCells : Succeeded(c, "write")
    /\ \E p \in DOMAIN files : files[p] = <<>>
    /\ \E p \in DOMAIN files : files[p] # <<>>

NoMarker(s) == \A i \in 1..Len(s) : s[i] # MARK

\* C11: a text without the marker is returned unmodified, and a sanitized
\* text without the marker is returned unchanged by a second call.
C11_NoMarkerUnchanged ==
    /\ (pc \in {"cleaned", "recleaned"} /\ NoMarker(content)) => cleaned = content
    /\ (pc = "recleaned" /\ NoMarker(cleaned)) => recleaned = cleaned

\* C11 witness: a text with the marker was sanitized to a non-empty text
\* without it, and sanitized again.
C11_Witness ==
    pc = "recleaned" /\ ~NoMarker(content) /\ NoMarker(cleaned) /\ cleaned # <<>>

\* The workload phases and the artifact write of a cell.
WorkloadOps == {"load", "run", "write"}

\* C12: every build step has completed before the first launch and none runs
\* after it, and no load phase, run phase or artifact write of a launch
\* happens after the stop/reset of that launch.
C12_BuildFirstStopLast ==
    /\ \A i \in DOMAIN trace :
          trace[i].op = "launch" =>
             /\ Cardinality({j \in 1..(i - 1) :
                               trace[j].op = "build" /\ trace[j].ok}) = BuildSteps
             /\ \A j \in DOMAIN trace : trace[j].op = "build" => j < i
    /\ \A i \in DOMAIN trace, j \in DOMAIN trace :
          (i < j /\ trace[i].op = "cleanup" /\ trace[j].op \in WorkloadOps)
             => trace[j].id # trace[i].id

\* C12 witness: a launch was stopped, a later launch followed it and the
\* sweep has just written that later launch's artifact.
C12_Witness ==
    /\ Launches >= 2
    /\ Count("cleanup") >= 1
    /\ trace # <<>>
    /\ trace[Len(trace)].op = "write"
    /\ trace[Len(trace)].id = Launches

\* C13: every load phase is preceded by a finished readiness check of the
\* launch it runs against.  The rex_store launch has none.
C13_ReadinessBeforeLoad ==
    \A j \in DOMAIN trace :
        trace[j].op = "load" =>
            \E i \in 1..(j - 1) :
                trace[i].op = "readiness" /\ trace[i].id = trace[j].id

\* C14: a stop that found the process running and signalled it sends SIGINT
\* first, and sends SIGKILL after it exactly when the process had not exited
\* within the 5 s wait; SIGKILL never comes first and never when the process
\* exited in time.
C14_KillIffGraceExpired ==
    stopDelay > 0 =>
        /\ signals \in {<<"SIGINT">>, <<"SIGINT", "SIGKILL">>}
        /\ (signals = <<"SIGINT", "SIGKILL">>) <=> (stopDelay > 5)

\* C14 witness: the second stop of a sweep found its process running and
\* escalated to SIGKILL because the process needed more than the 5 s.
C14_Witness ==
    /\ signals = <<"SIGINT", "SIGKILL">>
    /\ stopDelay > 5
    /\ Count("cleanup") >= 2

\* The step is a call of stop_rex_store_cluster.
StopStep ==
    /\ Len(trace') = Len(trace) + 1
    /\ trace'[Len(trace')].op = "cleanup"

\* C15: a stop call does not raise when the process had exited before the
\* call or exited between poll() and the SIGINT, and a stop call that
\* directly follows another one sends no signal and does not raise.
C15_StopSafeOnExitedAndRepeated ==
    [][StopStep =>
         /\ (proc # "running" \/ stopDelay' = 0)
               => (raised' = "none" /\ trace'[Len(trace')].ok)
         /\ (trace # <<>> /\ trace[Len(trace)].op = "cleanup")
               => (signals' = <<>> /\ stopDelay' = -1 /\ raised' = "none")]_vars

\* C15 witness: a process was launched and found running, stopped, and
\* stop was called a second time with no launch in between.
C15_Witness ==
    /\ Len(trace) = 4
    /\ trace[2].op = "launch_return" /\ trace[2].ok
    /\ trace[3].op = "cleanup"
    /\ trace[4].op = "cleanup"
    /\ signals = <<>>
    /\ raised = "none"

\* The launches made when the loops are at (run, mt) and no launch failed:
\* one per run in the redis driver, one per cell in the rex_store driver.
LaunchesDue ==
    IF run = 0 THEN 0
    ELSE IF bench = "redis" THEN run
    ELSE Len(measurement_types) * (run - 1) + mt

\* C16: the sweep launches the cluster once, and all its load phases run
\* against that one launch.
C16_OneLaunchPerSweep ==
    /\ Launches <= 1
    /\ \A i \in DOMAIN trace, j \in DOMAIN trace :
          (trace[i].op = "load" /\ trace[j].op = "load") => trace[i].id = trace[j].id

\* C16 (amended): the redis driver launches once per run and the rex_store
\* driver once per (run, measurement_type) cell.  Two load phases run against
\* the same launch exactly when they are the measurement types of one redis
\* run, and then no stop and no launch lies between them.
C16_LaunchPerRunOrCell ==
    /\ Launches <= LaunchesDue
    /\ \A i \in DOMAIN trace, j \in DOMAIN trace :
          (i < j /\ trace[i].op = "load" /\ trace[j].op = "load") =>
             /\ (trace[i].id = trace[j].id)
                   <=> (bench = "redis" /\ trace[i].cell[2] = trace[j].cell[2])
             /\ trace[i].id = trace[j].id =>
                   \A k \in (i + 1)..(j - 1) :
                       trace[k].op \notin {"cleanup", "launch"}

\* C16 witness: a redis sweep of two runs has ended with both measurement
\* types of both runs written, after two launches.
C16_Witness ==
    /\ bench = "redis"
    /\ pc = "done"
    /\ runs = 2
    /\ Launches = 2
    /\ \A c \in AllCells : Succeeded(c, "write")

\* C17: the readiness loop of launch_redis_cluster has ended by the
\* deadline, whatever the process does.
C17_LoopEndsByDeadline ==
    (bench = "redis" /\ pc \in {"await_done", "launch_ret"}) => elapsed <= timeout

\* C18: whenever launch_rex_store_cluster returns True, the process it
\* started is running at the return.
C18_TrueOnlyForRunningProcess ==
    [][(bench = "rex" /\ pc = "launch" /\ pc' = "launch_ret" /\ launchResult')
          => proc' = "running"]_vars

\* C19: once ok_count has reached node_count the readiness loop reads no
\* further line and lets no further time pass: its next step leaves the loop,
\* and the launch then returns True.
C19_LoopStopsAtLastMarker ==
    [][/\ (pc = "await" /\ ok_count = node_count /\ proc' = proc)
             => (pc' = "await_done" /\ elapsed' = elapsed /\ line' = line
                 /\ ok_count' = ok_count)
       /\ (pc = "await_done" /\ ok_count = node_count /\ pc' = "launch_ret")
             => launchResult']_vars

\* C19 witness: with two nodes the second marker line was read before the
\* deadline and the loop has ended there.
C19_Witness ==
    /\ pc = "await_done"
    /\ node_count = 2
    /\ ok_count = 2
    /\ launchEnd = "ready"
    /\ ContainsReady(line)
    /\ elapsed < timeout

\* C20: when readline returns end of file on an exited process while the
\* loop is still waiting, the loop ends on that iteration with the count
\* unchanged, and the launch then returns False and raises nothing.
C20_ExitEndsLoopWithFalse ==
    [][/\ (pc = "await" /\ KeepWaiting /\ proc = "exited" /\ line' = EOF)
             => (pc' = "await_done" /\ launchEnd' = "exit" /\ ok_count' = ok_count)
       /\ (pc = "await_done" /\ launchEnd = "exit" /\ pc' = "launch_ret")
             => (~launchResult' /\ raised' = "none" /\ pc' # "failed")]_vars

\* C20 witness: with two nodes the process exited after one marker, before
\* the deadline, and the launch has returned False.
C20_Witness ==
    /\ pc = "launch_ret"
    /\ launchEnd = "exit"
    /\ node_count = 2
    /\ ok_count = 1
    /\ elapsed < timeout
    /\ ~launchResult
    /\ raised = "none"

\* C21: the run phase of a cell starts only right after that cell's load
\* phase succeeded; after a failed load the cell has no run phase, and after
\* a failed load or a failed run the cell has no artifact write and no
\* artifact file.
C21_RunOnlyAfterLoad ==
    /\ \A j \in DOMAIN trace :
          trace[j].op = "run" =>
             /\ j > 1
             /\ trace[j - 1].op = "load"
             /\ trace[j - 1].ok
             /\ trace[j - 1].cell = trace[j].cell
             /\ trace[j - 1].id = trace[j].id
    /\ \A i \in DOMAIN trace :
          (trace[i].op \in {"load", "run"} /\ ~trace[i].ok) =>
             /\ \A j \in DOMAIN trace :
                   (trace[j].cell = trace[i].cell /\ j # i) =>
                       /\ trace[j].op # "write"
                       /\ trace[i].op = "load" => trace[j].op # "run"
             /\ OutputFile(trace[i].cell[1], trace[i].cell[2]) \notin DOMAIN files

\* C21 witness: after one cell was written, the load phase of the next cell
\* failed and the sweep has ended.
C21_Witness ==
    /\ pc = "failed"
    /\ Count("write") = 1
    /\ \E i \in DOMAIN trace : trace[i].op = "load" /\ ~trace[i].ok
    /\ Count("run") = 1

\* The number of elements of the text split on newline.
LineCount(s) == NewlinesUpTo(s, Len(s)) + 1

\* The text has a marker line k with k + 5 >= the number of lines.
MarkerNearEnd(s) ==
    /\ ~NoMarker(s)
    /\ MarkerLine(s) + 5 >= LineCount(s)

====
